---------------------------- MODULE Spec2Model ----------------------------
(***************************************************************************)
(* The round-trip pipeline of the two notebooks:                           *)
(*   src/unnamed/part_000   (the later notebook, version "part_000")       *)
(*   src/Hypothesize.ipynb  (the earlier notebook, version "Hypothesize")  *)
(*                                                                         *)
(* numeric_expressions | relational_expressions() is drawn, serialized by  *)
(* S.latex, typeset by pdflatex in a temporary directory, parsed by        *)
(* parse_latex and compared with the original.                             *)
(*                                                                         *)
(* The collaborators (sympy constructors, S.latex, pdflatex, parse_latex,  *)
(* the filesystem) are inputs: each call's outcome is chosen from the      *)
(* outcomes that call can have.  shutil.rmtree and mkdtemp are taken to    *)
(* succeed.                                                                *)
(***************************************************************************)
EXTENDS Integers, Sequences, FiniteSets, TLC

\* ------------------------------------------------------------------ bounds

\* Largest number of nodes (atoms and operator applications) of an expression
\* drawn for one case.
MaxNodes == 4

\* st.integers() of the earlier notebook is drawn from -MaxInt..MaxInt.
MaxInt == 36

\* st.integers(min_value=1, max_value=35)
MinPrecision == 1
MaxPrecision == 35

\* ------------------------------------------------------------ python values

Versions == {"part_000", "Hypothesize"}

\* Python's None where an expression is expected.
None == [op |-> "None", args |-> <<>>, how |-> "none", val |-> ""]

\* An optional string or object: <<>> is None, <<x>> is x.
Absent == <<>>
Some(x) == <<x>>

Node(op, args, how) == [op |-> op, args |-> args, how |-> how, val |-> ""]
Atom(op, val) == [op |-> op, args |-> <<>>, how |-> "atom", val |-> val]

\* The outcome of one draw: a value, a rejection (assume(False), hypothesis's
\* UnsatisfiedAssumption) or another error leaving the composite.
Value(e) == [tag |-> "value", e |-> e]
Reject == [tag |-> "reject", e |-> None]
Error == [tag |-> "error", e |-> None]

Range(s) == {s[i] : i \in DOMAIN s}

\* ---------------------------------------------------------- operator tables

_numeric_unary_ops ==
  <<"sin", "tan", "cos", "acos", "sec", "acos", "atan", "asec", "csc",
    "Abs", "sqrt", "factorial">>

_numeric_binary_ops == <<"Add", "Mul", "Pow", "Rational", "root", "Derivative">>

_numeric_ternary_ops == <<"Limit">>

_comparators == <<"gt", "ge", "lt", "le", "eq", "ne">>

Hyp_numeric_unary_ops ==
  <<"sin", "tan", "cos", "acos", "sec", "acos", "atan", "asec", "Abs">>

Hyp_numeric_binary_ops == <<"add", "sub", "mul", "pow", "truediv">>

\* The operators and raw floats the draws of this model range over.
OpSamples == {"sin", "root", "Limit", "gt", "truediv"}
FloatSamples == {"0.0", "1.5"}

\* ------------------------------------------------------------------ names

\* A string is a sequence of code points.  The strings this model tells
\* apart, with the text of each: the empty string, "a", "Z", "1", the long s
\* (U+017F) and "ab".
NameCandidates == {<<>>, <<97>>, <<90>>, <<49>>, <<383>>, <<97, 98>>}

Text(name) ==
  CASE name = <<>> -> ""
    [] name = <<97>> -> "a"
    [] name = <<90>> -> "Z"
    [] name = <<49>> -> "1"
    [] name = <<383>> -> "U+017F"
    [] name = <<97, 98>> -> "ab"

\* str.swapcase on one character of the ranges a-z and A-Z.
swapcase(c) ==
  IF c \in 97..122 THEN c - 32 ELSE IF c \in 65..90 THEN c + 32 ELSE c

\* The characters hypothesis draws for the class [a-z] of a pattern compiled
\* with re.IGNORECASE: each character of the range, and its other case.
CharacterClass(ignorecase) ==
  (97..122) \cup (IF ignorecase THEN {swapcase(c) : c \in 97..122} ELSE {})

\* The pattern without its \Z: one character of the class, then anything.
_variable_names_Unanchored ==
  {<<c>> : c \in CharacterClass(TRUE)}
    \cup {n \in NameCandidates : Len(n) >= 1 /\ n[1] \in CharacterClass(TRUE)}

\* st.from_regex(re.compile(r"\A[a-z]\Z", re.IGNORECASE)): \A and \Z leave
\* room for nothing before or after the one character of the class.
_variable_names == {<<c>> : c \in CharacterClass(TRUE)}

\* The names the draws of this model range over.
NameSamples == _variable_names \cap NameCandidates

\* st.sampled_from(table)
SampledFrom(table) == Range(table) \cap OpSamples

\* What a constructor call can do: uneval is whether op(..., evaluate=False)
\* returns, eval whether op(...) returns.
Libs == [uneval : BOOLEAN, eval : BOOLEAN]

\* ------------------------------------------------------------- generators

\* part_000: floats.  ok: S.Float(f, prec) returns.
floats(f, prec, ok) ==
  IF ok THEN Value(Atom("Float", f)) ELSE Reject

\* The earlier floats without its second assume.
Hyp_floats_NoUpperBound(f, precision, ok) ==
  IF ~(precision > -1) THEN Reject
  ELSE IF ok THEN Value(Atom("Float", f)) ELSE Error

\* Hypothesize.ipynb: floats.  The constructor is called outside any try.
Hyp_floats(f, precision, ok) ==
  IF ~(precision > -1) THEN Reject
  ELSE IF ~(precision < 35) THEN Reject
  ELSE IF ok THEN Value(Atom("Float", f)) ELSE Error

symbols(name) == Value(Atom("Symbol", Text(name)))

\* The composition with its second call outside any try block.
numeric_unary_expressions_Unguarded(op, a, lib) ==
  IF lib.uneval THEN Value(Node(op, <<a>>, "unevaluated"))
  ELSE IF lib.eval THEN Value(Node(op, <<a>>, "evaluated"))
  ELSE Error

numeric_unary_expressions(op, a, lib) ==
  IF lib.uneval THEN Value(Node(op, <<a>>, "unevaluated"))
  ELSE IF lib.eval THEN Value(Node(op, <<a>>, "evaluated"))
  ELSE Reject

\* The second attempt calls ops(a, b): ops is the module `operator`, and
\* calling a module raises TypeError whatever a and b are; the bare except
\* swallows it and assume(False) follows.
numeric_binary_expressions(op, a, b, lib) ==
  IF lib.uneval THEN Value(Node(op, <<a, b>>, "unevaluated"))
  ELSE Reject

numeric_ternary_expressions(op, a, b, c, lib) ==
  IF lib.uneval THEN Value(Node(op, <<a, b, c>>, "unevaluated"))
  ELSE IF lib.eval THEN Value(Node(op, <<a, b, c>>, "evaluated"))
  ELSE Reject

\* The composition without a second call that can return.
relational_expressions_NoFallback(op, a, b, lib) ==
  IF lib.uneval THEN Value(Node(op, <<a, b>>, "unevaluated"))
  ELSE Reject

relational_expressions(op, a, b, lib) ==
  IF lib.uneval THEN Value(Node(op, <<a, b>>, "unevaluated"))
  ELSE IF lib.eval THEN Value(Node(op, <<a, b>>, "evaluated"))
  ELSE Reject

\* Hypothesize.ipynb: one call, outside any try.
Hyp_numeric_unary_expressions(op, a, lib) ==
  IF lib.eval THEN Value(Node(op, <<a>>, "evaluated")) ELSE Error

Hyp_numeric_binary_expressions(op, a, b, lib) ==
  IF lib.eval THEN Value(Node(op, <<a, b>>, "evaluated")) ELSE Error

\* Hypothesize.ipynb: the call and its draws are inside try / bare except.
Hyp_relational_expressions(op, a, b, lib) ==
  IF lib.eval THEN Value(Node(op, <<a, b>>, "evaluated")) ELSE Reject

\* A union that also lists relational_expressions.
numeric_expressions_WithRelations(names) ==
  SelectSeq(<<"floats", "symbols", "numeric_unary_expressions",
              "numeric_binary_expressions", "numeric_ternary_expressions",
              "relational_expressions">>,
            LAMBDA g : g \in names \/ g = "relational_expressions")

\* A union whose list starts with a composition.
numeric_expressions_CompoundFirst(names) ==
  SelectSeq(<<"numeric_unary_expressions", "floats", "symbols",
              "numeric_binary_expressions", "numeric_ternary_expressions">>,
            LAMBDA g : g \in names)

\* part_000: the body of the deferred definition, run at the first draw with
\* the generators defined by then (a NameError is swallowed by each except).
numeric_expressions(names) ==
  SelectSeq(<<"floats", "symbols", "numeric_unary_expressions",
              "numeric_binary_expressions", "numeric_ternary_expressions">>,
            LAMBDA g : g \in names)

\* Hypothesize.ipynb: the union, built when its cell runs.
Hyp_numeric_expressions ==
  <<"floats", "symbols", "numeric_binary_expressions",
    "numeric_unary_expressions">>


\* ------------------------------------------------- what one draw can yield

Unary(v, op, a, lib) ==
  IF v = "part_000" THEN numeric_unary_expressions(op, a, lib)
  ELSE Hyp_numeric_unary_expressions(op, a, lib)

Binary(v, op, a, b, lib) ==
  IF v = "part_000" THEN numeric_binary_expressions(op, a, b, lib)
  ELSE Hyp_numeric_binary_expressions(op, a, b, lib)

Relational(v, op, a, b, lib) ==
  IF v = "part_000" THEN relational_expressions(op, a, b, lib)
  ELSE Hyp_relational_expressions(op, a, b, lib)

Floats(v, f, prec, ok) ==
  IF v = "part_000" THEN floats(f, prec, ok) ELSE Hyp_floats(f, prec, ok)

UnaryOps(v) ==
  SampledFrom(IF v = "part_000" THEN _numeric_unary_ops ELSE Hyp_numeric_unary_ops)

BinaryOps(v) ==
  SampledFrom(IF v = "part_000" THEN _numeric_binary_ops ELSE Hyp_numeric_binary_ops)

TernaryOps == SampledFrom(_numeric_ternary_ops)

Comparators == SampledFrom(_comparators)

\* The integers the precision is drawn from.
Precisions(v) ==
  IF v = "part_000" THEN MinPrecision..MaxPrecision ELSE (0 - MaxInt)..MaxInt

ValuesOf(results) == {r.e : r \in {x \in results : x.tag = "value"}}

\* NumericBySize(v, strat)[k]: the expressions of exactly k nodes that a draw
\* from numeric_expressions can return, strat being the alternatives of the
\* union.  An operand is itself a draw from numeric_expressions.
NumericBySize(v, strat) ==
  LET N[k \in 0..MaxNodes] ==
        IF k = 0 THEN {}
        ELSE
          LET alt(g) ==
                CASE g = "floats" ->
                       IF k = 1
                       THEN ValuesOf({Floats(v, f, p, ok) :
                                        f \in FloatSamples, p \in Precisions(v),
                                        ok \in BOOLEAN})
                       ELSE {}
                  [] g = "symbols" ->
                       IF k = 1
                       THEN ValuesOf({symbols(n) : n \in NameSamples})
                       ELSE {}
                  [] g = "numeric_unary_expressions" ->
                       ValuesOf({Unary(v, op, a, lib) :
                                   op \in UnaryOps(v), a \in N[k - 1], lib \in Libs})
                  [] g = "numeric_binary_expressions" ->
                       UNION {ValuesOf({Binary(v, op, a, b, lib) :
                                          op \in BinaryOps(v), a \in N[i],
                                          b \in N[k - 1 - i], lib \in Libs}) :
                              i \in 1..(k - 2)}
                  [] g = "numeric_ternary_expressions" ->
                       UNION {ValuesOf({numeric_ternary_expressions(op, a, b, c, lib) :
                                          op \in TernaryOps, a \in N[ij[1]],
                                          b \in N[ij[2]],
                                          c \in N[k - 1 - ij[1] - ij[2]],
                                          lib \in Libs}) :
                              ij \in {x \in (1..k) \X (1..k) : x[1] + x[2] <= k - 2}}
                  [] g = "relational_expressions" ->
                       UNION {ValuesOf({Relational(v, op, a, b, lib) :
                                          op \in Comparators, a \in N[i],
                                          b \in N[k - 1 - i], lib \in Libs}) :
                              i \in 1..(k - 2)}
          IN UNION {alt(g) : g \in Range(strat)}
  IN N

\* The expressions of at most m nodes, and the operand lists of at most m
\* nodes in all.
UpTo(N, m) == UNION {N[k] : k \in 1..m}

Pairs(N, m) ==
  UNION {N[ij[1]] \X N[ij[2]] :
           ij \in {x \in (1..m) \X (1..m) : x[1] + x[2] <= m}}

Triples(N, m) ==
  UNION {N[ijl[1]] \X N[ijl[2]] \X N[ijl[3]] :
           ijl \in {x \in (1..m) \X (1..m) \X (1..m) : x[1] + x[2] + x[3] <= m}}

\* A record of the construction made at the root of a case.
NoAttempt ==
  [gen |-> "none", op |-> "", args |-> <<>>, prec |-> 0, name |-> <<>>,
   nested |-> "none", lib |-> [uneval |-> FALSE, eval |-> FALSE], res |-> Reject]

Attempt(gen, op, args, prec, lib, res) ==
  [gen |-> gen, op |-> op, args |-> args, prec |-> prec, name |-> <<>>,
   nested |-> "none", lib |-> lib, res |-> res]

\* How the draw of an operand can fail: it is rejected, or an error leaves
\* it.  Every generator of part_000 ends in a bare except and assume(False),
\* so its operands are only ever rejected; those of Hypothesize.ipynb call
\* the constructors unguarded.
NestedFailures(v) == IF v = "part_000" THEN {"reject"} ELSE {"reject", "error"}

\* relational_expressions of Hypothesize.ipynb returning expr without its
\* assume: the bare except has swallowed the failure and expr is None.
NestedDrawFails_ReturnsNone(v, gen, n) ==
  IF v = "Hypothesize" /\ gen = "relational_expressions"
  THEN Value(None)
  ELSE IF n = "reject" THEN Reject ELSE Error

\* What the enclosing composite does when the draw of an operand fails as n.
\* The draws are made outside the try blocks, so the failure leaves the
\* composite as it is.  In Hypothesize.ipynb relational_expressions draws
\* inside its bare except, which swallows it, and assume(expr is not None)
\* then rejects.
NestedDrawFails(v, gen, n) ==
  IF v = "Hypothesize" /\ gen = "relational_expressions"
  THEN Reject
  ELSE IF n = "reject" THEN Reject ELSE Error

OperandFailures(v, gen) ==
  {[Attempt(gen, "", <<>>, 0, [uneval |-> FALSE, eval |-> FALSE],
            NestedDrawFails(v, gen, n)) EXCEPT !.nested = n] :
     n \in NestedFailures(v)}

\* Every outcome of draw(numeric_expressions | relational_expressions()),
\* with the construction made at its root.
RootOutcomes(v, strat) ==
  LET N == NumericBySize(v, strat)
      m == MaxNodes - 1
      alt(g) ==
        CASE g = "floats" ->
               {Attempt(g, "Float", <<>>, p, [uneval |-> FALSE, eval |-> ok],
                        Floats(v, f, p, ok)) :
                  f \in FloatSamples, p \in Precisions(v), ok \in BOOLEAN}
          [] g = "symbols" ->
               {[Attempt(g, "Symbol", <<>>, 0, [uneval |-> FALSE, eval |-> TRUE],
                         symbols(n)) EXCEPT !.name = n] : n \in NameSamples}
          [] g = "numeric_unary_expressions" ->
               {Attempt(g, op, <<a>>, 0, lib, Unary(v, op, a, lib)) :
                  op \in UnaryOps(v), a \in UpTo(N, m), lib \in Libs}
               \cup OperandFailures(v, g)
          [] g = "numeric_binary_expressions" ->
               {Attempt(g, op, <<ab[1], ab[2]>>, 0, lib,
                        Binary(v, op, ab[1], ab[2], lib)) :
                  op \in BinaryOps(v), ab \in Pairs(N, m), lib \in Libs}
               \cup OperandFailures(v, g)
          [] g = "numeric_ternary_expressions" ->
               {Attempt(g, op, <<abc[1], abc[2], abc[3]>>, 0, lib,
                        numeric_ternary_expressions(op, abc[1], abc[2], abc[3], lib)) :
                  op \in TernaryOps, abc \in Triples(N, m), lib \in Libs}
               \cup OperandFailures(v, g)
          [] g = "relational_expressions" ->
               {Attempt(g, op, <<ab[1], ab[2]>>, 0, lib,
                        Relational(v, op, ab[1], ab[2], lib)) :
                  op \in Comparators, ab \in Pairs(N, m), lib \in Libs}
               \cup OperandFailures(v, g)
  IN UNION {alt(g) : g \in Range(strat) \cup {"relational_expressions"}}

\* ------------------------------------------------------------------ state

VARIABLES
  version,      \* which notebook runs
  defined,      \* the generator cells run so far
  resolved,     \* whether the deferred numeric_expressions has been resolved
  strategies,   \* the alternatives of numeric_expressions, once resolved
  pc,           \* where the run is
  expr,         \* the expression of the case
  attempt,      \* the construction at the root of the draw just made
  drawn,        \* how the draw of the expression ended
  latex_str,    \* the markup of the case
  printed,      \* the calls of S.latex for the case: <<expression, outcome>>
  tmpdirs,      \* how many directories made by mkdtemp exist
  tex,          \* the content of expr.tex
  pdfFile,      \* whether expr.pdf exists
  success,      \* typesettable_expressions' success
  pdf,          \* typesettable_expressions' pdf
  pending,      \* the exception the finally clause re-raises
  failedStep,   \* the step of the try body that raised
  compileExit,  \* how pdflatex ended
  truth,        \* what bool(expr) did in assume(expr)
  expr_parsed,  \* test_latex_roundtrip's expr_parsed
  parser_arg,   \* the strings parse_latex was called with
  parseRaised,  \* whether parse_latex raised
  rejectedBy,   \* the component that rejected the case
  escaped,      \* the error that left the pipeline
  report,       \* the list carried by the ValueError
  replayStrategies,  \* a second session: the alternatives it resolved
  replayExpr,   \* a second session: the expression its draw returned
  replayed,     \* a second session: whether it made its draw
  cell,         \* the cell of the notebook that runs, from "Run the Test" on
  shown,        \* what the cells have printed and displayed
  consumed,     \* how many times the except clause unpacked err.args[0]
  raised,       \* the exception that ended a cell
  exit          \* how the execution of the notebook ended

vars ==
  <<version, defined, resolved, strategies, pc, expr, attempt, drawn, latex_str,
    printed, tmpdirs, tex, pdfFile, success, pdf, pending, failedStep,
    compileExit, truth, expr_parsed, parser_arg, parseRaised, rejectedBy,
    escaped, report, replayStrategies, replayExpr, replayed,
    cell, shown, consumed, raised, exit>>

notebookVars == <<version, defined, resolved, strategies>>
drawVars == <<expr, attempt, drawn>>
printVars == <<latex_str, printed>>
oracleVars == <<tmpdirs, tex, pdfFile, success, pdf, pending, failedStep, compileExit>>
testVars == <<truth, expr_parsed, parser_arg, parseRaised>>
runVars == <<escaped, report>>
replayVars == <<replayStrategies, replayExpr, replayed>>
cellVars == <<cell, shown, consumed, raised, exit>>

\* The generator cells of part_000 after floats, in file order.
Cells ==
  <<"numeric_expressions", "symbols", "numeric_unary_expressions",
    "numeric_binary_expressions", "numeric_ternary_expressions">>

\* The strings S.latex returns in this model.
MarkupSamples == {"", "x", "y"}

\* LATEX_DOC % latex_str
LATEX_DOC(s) == <<"\\begin{document}$$", s, "$$\\end{document}">>

CaseCleared ==
  /\ expr = None
  /\ attempt = NoAttempt
  /\ drawn = "none"
  /\ latex_str = Absent
  /\ printed = <<>>
  /\ tmpdirs = 0
  /\ tex = Absent
  /\ pdfFile = FALSE
  /\ success = "None"
  /\ pdf = Absent
  /\ pending = "none"
  /\ failedStep = "none"
  /\ compileExit = "none"
  /\ truth = "none"
  /\ expr_parsed = None
  /\ parser_arg = <<>>
  /\ parseRaised = FALSE
  /\ rejectedBy = "none"

Init ==
  /\ version \in Versions
  /\ defined = IF version = "part_000" THEN {"floats"}
               ELSE Range(Hyp_numeric_expressions) \cup {"numeric_expressions"}
  /\ resolved = (version = "Hypothesize")
  /\ strategies = IF version = "part_000" THEN <<>> ELSE Hyp_numeric_expressions
  /\ pc = "notebook"
  /\ CaseCleared
  /\ escaped = "none"
  /\ report = <<>>
  /\ replayStrategies = <<>>
  /\ replayExpr = None
  /\ replayed = FALSE
  /\ cell = "run"
  /\ shown = <<>>
  /\ consumed = 0
  /\ raised = "none"
  /\ exit = "none"

\* ------------------------------------------------------------- the notebook

\* The cell of numeric_expressions calling the definition as it runs.
DefineCell_Eager ==
  /\ pc = "notebook"
  /\ version = "part_000"
  /\ \E i \in DOMAIN Cells :
       /\ Cells[i] \notin defined
       /\ \A j \in 1..(i - 1) : Cells[j] \in defined
       /\ defined' = defined \cup {Cells[i]}
       /\ resolved' = (resolved \/ Cells[i] = "numeric_expressions")
       /\ strategies' = IF Cells[i] = "numeric_expressions"
                        THEN numeric_expressions(defined) ELSE strategies
  /\ UNCHANGED <<version, pc>>
  /\ UNCHANGED <<drawVars, printVars, oracleVars, testVars, rejectedBy, runVars>>
  /\ UNCHANGED replayVars
  /\ UNCHANGED cellVars

\* @st.deferred keeps the definition without calling it, and a def of a
\* composite calls nothing either.
DefineCell ==
  /\ pc = "notebook"
  /\ version = "part_000"
  /\ \E i \in DOMAIN Cells :
       /\ Cells[i] \notin defined
       /\ \A j \in 1..(i - 1) : Cells[j] \in defined
       /\ defined' = defined \cup {Cells[i]}
  /\ UNCHANGED <<version, resolved, strategies, pc>>
  /\ UNCHANGED <<drawVars, printVars, oracleVars, testVars, rejectedBy, runVars>>
  /\ UNCHANGED replayVars
  /\ UNCHANGED cellVars

\* The alternatives a draw from numeric_expressions chooses among: the
\* deferred definition runs at the first draw and its result is kept.
Resolve == IF resolved THEN strategies ELSE numeric_expressions(defined)

\* An examples(...) cell of part_000 draws from numeric_expressions.
Examples ==
  /\ pc = "notebook"
  /\ version = "part_000"
  /\ "numeric_expressions" \in defined
  /\ resolved' = TRUE
  /\ strategies' = Resolve
  /\ UNCHANGED <<version, defined, pc>>
  /\ UNCHANGED <<drawVars, printVars, oracleVars, testVars, rejectedBy, runVars>>
  /\ UNCHANGED replayVars
  /\ UNCHANGED cellVars

\* test_latex_roundtrip() is called, every cell having run.
RunTest ==
  /\ pc = "notebook"
  /\ \A i \in DOMAIN Cells : version = "part_000" => Cells[i] \in defined
  /\ pc' = "draw"
  /\ UNCHANGED notebookVars
  /\ UNCHANGED <<drawVars, printVars, oracleVars, testVars, rejectedBy, runVars>>
  /\ UNCHANGED replayVars
  /\ UNCHANGED cellVars

\* ------------------------------------------ latex_printable_expressions

\* expr = draw(numeric_expressions | relational_expressions())
DrawExpr ==
  /\ pc = "draw"
  /\ resolved' = TRUE
  /\ strategies' = Resolve
  /\ \E o \in RootOutcomes(version, Resolve) :
       /\ attempt' = o
       /\ expr' = o.res.e
       /\ drawn' = o.res.tag
       /\ pc' = CASE o.res.tag = "value" -> "latex"
                  [] o.res.tag = "reject" -> "rejected"
                  [] o.res.tag = "error" -> "halted"
       /\ rejectedBy' = IF o.res.tag = "reject" THEN o.gen ELSE rejectedBy
       /\ escaped' = IF o.res.tag = "error" THEN "ConstructionError" ELSE escaped
  /\ UNCHANGED <<version, defined, report>>
  /\ UNCHANGED <<printVars, oracleVars, testVars>>
  /\ UNCHANGED replayVars
  /\ UNCHANGED cellVars

\* A filter that lets every serializer outcome through.
latex_printable_assume_Always(s) == TRUE

\* part_000: assume(latex_str is not None)
latex_printable_assume(s) == s # Absent

\* Hypothesize.ipynb: assume(latex_str)
Hyp_latex_printable_assume(s) == s # Absent /\ s # Some("")

PrintableAssume(v, s) ==
  IF v = "part_000" THEN latex_printable_assume(s) ELSE Hyp_latex_printable_assume(s)

\* A composite that makes the directory before the filter is applied.
Serialize_DirectoryFirst ==
  /\ pc = "latex"
  /\ \E out \in {Absent} \cup {Some(m) : m \in MarkupSamples} :
       /\ latex_str' = out
       /\ printed' = Append(printed, <<expr, out>>)
       /\ IF PrintableAssume(version, out)
          THEN pc' = "mkdtemp" /\ UNCHANGED rejectedBy
          ELSE pc' = "rejected" /\ rejectedBy' = "latex_printable_expressions"
  /\ attempt' = NoAttempt
  /\ tmpdirs' = tmpdirs + 1
  /\ UNCHANGED <<tex, pdfFile, success, pdf, pending, failedStep, compileExit>>
  /\ UNCHANGED <<expr, drawn>>
  /\ UNCHANGED <<notebookVars, testVars, runVars>>
  /\ UNCHANGED replayVars
  /\ UNCHANGED cellVars

\* latex_str = S.latex(expr) inside try / except Exception, then the assume.
\* out is what the serializer does: it raises, or returns a string.
Serialize ==
  /\ pc = "latex"
  /\ \E out \in {Absent} \cup {Some(m) : m \in MarkupSamples} :
       /\ latex_str' = out
       /\ printed' = Append(printed, <<expr, out>>)
       /\ IF PrintableAssume(version, out)
          THEN pc' = "mkdtemp" /\ UNCHANGED rejectedBy
          ELSE pc' = "rejected" /\ rejectedBy' = "latex_printable_expressions"
  /\ attempt' = NoAttempt
  /\ UNCHANGED <<expr, drawn>>
  /\ UNCHANGED <<notebookVars, oracleVars, testVars, runVars>>
  /\ UNCHANGED replayVars
  /\ UNCHANGED cellVars

\* --------------------------------------------- typesettable_expressions

\* The exception classes raised in this model that derive from Exception;
\* KeyboardInterrupt derives from BaseException only.
ExceptionClasses == {"OSError", "CalledProcessError", "LaTeXParsingError"}

\* An except clause that catches OSError only.
typesettable_except_OnlyOSError(exc) == exc = "OSError"

\* typesettable_expressions: except Exception as err: pass
typesettable_except(exc) == exc \in ExceptionClasses

\* rmtree placed at the end of the try body instead of in a finally clause:
\* an exception skips it.
TryBodyRaises_SkipFinally(exc) ==
  /\ pc' = "assume_success"
  /\ pending' = "none"

\* A statement of the try body raises exc: the except clause swallows it or
\* it stays pending, and the finally clause runs next either way.
TryBodyRaises(exc) ==
  /\ pc' = "cleanup"
  /\ pending' = IF typesettable_except(exc) THEN "none" ELSE exc

\* tmpdir = mkdtemp(); success = None; pdf = None
Mkdtemp ==
  /\ pc = "mkdtemp"
  /\ tmpdirs' = tmpdirs + 1
  /\ success' = "None"
  /\ pdf' = Absent
  /\ pc' = "write"
  /\ UNCHANGED <<tex, pdfFile, pending, failedStep, compileExit>>
  /\ UNCHANGED <<notebookVars, drawVars, printVars, testVars, rejectedBy, runVars>>
  /\ UNCHANGED replayVars
  /\ UNCHANGED cellVars

\* The document is filled with a second call of S.latex(expr).
Write_Reserialize ==
  /\ pc = "write"
  /\ \E m \in MarkupSamples :
       /\ printed' = Append(printed, <<expr, Some(m)>>)
       /\ tex' = Some(LATEX_DOC(Some(m)))
  /\ pc' = "compile"
  /\ UNCHANGED <<pending, failedStep, latex_str>>
  /\ UNCHANGED <<tmpdirs, pdfFile, success, pdf, compileExit>>
  /\ UNCHANGED <<notebookVars, drawVars, testVars, rejectedBy, runVars>>
  /\ UNCHANGED replayVars
  /\ UNCHANGED cellVars

\* with open(tmp_tex_path, "w+") as fp: fp.write(LATEX_DOC % latex_str)
Write ==
  /\ pc = "write"
  /\ \/ /\ tex' = Some(LATEX_DOC(latex_str))
        /\ pc' = "compile"
        /\ UNCHANGED <<pending, failedStep>>
     \/ /\ TryBodyRaises("OSError")
        /\ failedStep' = "write"
        /\ UNCHANGED tex
  /\ UNCHANGED <<tmpdirs, pdfFile, success, pdf, compileExit>>
  /\ UNCHANGED <<notebookVars, drawVars, printVars, testVars, rejectedBy, runVars>>
  /\ UNCHANGED replayVars
  /\ UNCHANGED cellVars

\* subprocess.check_call(["pdflatex", tmp_tex_path], cwd=tmpdir): pdflatex
\* exits zero (leaving expr.pdf or not), exits nonzero, cannot be started, or
\* the wait is interrupted.
Compile ==
  /\ pc = "compile"
  /\ \/ /\ compileExit' = "zero"
        /\ pdfFile' \in BOOLEAN
        /\ pc' = "read"
        /\ UNCHANGED <<pending, failedStep>>
     \/ /\ compileExit' = "nonzero"
        /\ TryBodyRaises("CalledProcessError")
        /\ failedStep' = "compile"
        /\ UNCHANGED pdfFile
     \/ /\ compileExit' = "not started"
        /\ TryBodyRaises("OSError")
        /\ failedStep' = "compile"
        /\ UNCHANGED pdfFile
     \/ /\ compileExit' = "interrupted"
        /\ TryBodyRaises("KeyboardInterrupt")
        /\ failedStep' = "interrupt"
        /\ UNCHANGED pdfFile
  /\ UNCHANGED <<tmpdirs, tex, success, pdf>>
  /\ UNCHANGED <<notebookVars, drawVars, printVars, testVars, rejectedBy, runVars>>
  /\ UNCHANGED replayVars
  /\ UNCHANGED cellVars

\* with open(tmp_pdf_path, "rb") as fp: pdf = PointlessPDFWrapper(fp.read())
\* success = True
Read ==
  /\ pc = "read"
  /\ \/ /\ pdfFile
        /\ pdf' = Some("PDF")
        /\ success' = "True"
        /\ pc' = "cleanup"
        /\ UNCHANGED <<pending, failedStep>>
     \/ /\ TryBodyRaises("OSError")
        /\ failedStep' = "read"
        /\ UNCHANGED <<pdf, success>>
  /\ UNCHANGED <<tmpdirs, tex, pdfFile, compileExit>>
  /\ UNCHANGED <<notebookVars, drawVars, printVars, testVars, rejectedBy, runVars>>
  /\ UNCHANGED replayVars
  /\ UNCHANGED cellVars

\* A finally clause that leaves the directory in place.
Cleanup_KeepsDirectory ==
  /\ pc = "cleanup"
  /\ IF pending = "none"
     THEN pc' = "assume_success" /\ UNCHANGED escaped
     ELSE pc' = "halted" /\ escaped' = pending
  /\ UNCHANGED <<tmpdirs, tex, pdfFile>>
  /\ UNCHANGED <<success, pdf, pending, failedStep, compileExit>>
  /\ UNCHANGED <<notebookVars, drawVars, printVars, testVars, rejectedBy, report>>
  /\ UNCHANGED replayVars
  /\ UNCHANGED cellVars

\* finally: shutil.rmtree(tmpdir); a pending exception is raised again.
Cleanup ==
  /\ pc = "cleanup"
  /\ tmpdirs' = tmpdirs - 1
  /\ tex' = Absent
  /\ pdfFile' = FALSE
  /\ IF pending = "none"
     THEN pc' = "assume_success" /\ UNCHANGED escaped
     ELSE pc' = "halted" /\ escaped' = pending
  /\ UNCHANGED <<success, pdf, pending, failedStep, compileExit>>
  /\ UNCHANGED <<notebookVars, drawVars, printVars, testVars, rejectedBy, report>>
  /\ UNCHANGED replayVars
  /\ UNCHANGED cellVars

\* The case is returned whatever success is.
AssumeSuccess_NoAssume ==
  /\ pc = "assume_success"
  /\ pc' = IF version = "part_000" THEN "assume_expr" ELSE "parse"
  /\ UNCHANGED rejectedBy
  /\ UNCHANGED <<notebookVars, drawVars, printVars, oracleVars, testVars, runVars>>
  /\ UNCHANGED replayVars
  /\ UNCHANGED cellVars

\* assume(success); return expr, latex_str, pdf.  The returned case is the
\* argument of test_latex_roundtrip, which part_000 starts with assume(expr).
AssumeSuccess ==
  /\ pc = "assume_success"
  /\ IF success = "True"
     THEN /\ pc' = IF version = "part_000" THEN "assume_expr" ELSE "parse"
          /\ UNCHANGED rejectedBy
     ELSE /\ pc' = "rejected"
          /\ rejectedBy' = "typesettable_expressions"
  /\ UNCHANGED <<notebookVars, drawVars, printVars, oracleVars, testVars, runVars>>
  /\ UNCHANGED replayVars
  /\ UNCHANGED cellVars

\* ------------------------------------------------- test_latex_roundtrip

\* What bool(e) can do.  Float.__bool__ is false for zero; a sympy
\* Relational raises TypeError; a comparison may also have evaluated to a
\* boolean; an evaluated numeric node may have folded to zero; any other
\* expression is true.
Truth(e) ==
  CASE e.op = "Float" -> IF e.val = "0.0" THEN {"falsy"} ELSE {"truthy"}
    [] e.op \in Range(_comparators) -> {"raises", "truthy", "falsy"}
    [] e.how = "evaluated" -> {"truthy", "falsy"}
    [] OTHER -> {"truthy"}

\* part_000: assume(expr)
AssumeExpr ==
  /\ pc = "assume_expr"
  /\ \E t \in Truth(expr) :
       /\ truth' = t
       /\ pc' = CASE t = "truthy" -> "parse"
                  [] t = "falsy" -> "rejected"
                  [] t = "raises" -> "halted"
       /\ rejectedBy' = IF t = "falsy" THEN "test_latex_roundtrip" ELSE rejectedBy
       /\ escaped' = IF t = "raises" THEN "TypeError" ELSE escaped
  /\ UNCHANGED <<expr_parsed, parser_arg, parseRaised, report>>
  /\ UNCHANGED <<notebookVars, drawVars, printVars, oracleVars>>
  /\ UNCHANGED replayVars
  /\ UNCHANGED cellVars

\* An except clause that catches ValueError only.
roundtrip_except_Narrow(exc) == exc = "ValueError"

\* test_latex_roundtrip: except Exception as err: pass
roundtrip_except(exc) == exc \in ExceptionClasses

\* The expressions parse_latex returns in this model for the markup of e.
ParseSamples(e) == {e, Atom("Symbol", "a"), Atom("Float", "0.0")}

\* try: expr_parsed = parse_latex(latex_str)
Parse ==
  /\ pc = "parse"
  /\ parser_arg' = Append(parser_arg, latex_str)
  /\ \/ /\ expr_parsed' \in ParseSamples(expr)
        /\ pc' = "compare"
        /\ UNCHANGED <<parseRaised, escaped>>
     \/ /\ parseRaised' = TRUE
        /\ UNCHANGED expr_parsed
        /\ IF roundtrip_except("LaTeXParsingError")
           THEN pc' = "compare" /\ UNCHANGED escaped
           ELSE pc' = "halted" /\ escaped' = "LaTeXParsingError"
  /\ UNCHANGED <<truth, rejectedBy, report>>
  /\ UNCHANGED <<notebookVars, drawVars, printVars, oracleVars>>
  /\ UNCHANGED replayVars
  /\ UNCHANGED cellVars

\* A ValueError whose list has the markup in second place.
Compare_MarkupSecond ==
  /\ pc = "compare"
  /\ IF expr = expr_parsed
     THEN pc' = "passed" /\ UNCHANGED runVars
     ELSE /\ pc' = "halted"
          /\ escaped' = "ValueError"
          /\ report' = <<expr, latex_str, expr_parsed, pdf>>
  /\ UNCHANGED <<notebookVars, drawVars, printVars, oracleVars, testVars, rejectedBy>>
  /\ UNCHANGED replayVars
  /\ UNCHANGED cellVars

\* if expr == expr_parsed: return
\* raise ValueError([expr, expr_parsed, latex_str, pdf])
Compare ==
  /\ pc = "compare"
  /\ IF expr = expr_parsed
     THEN pc' = "passed" /\ UNCHANGED runVars
     ELSE /\ pc' = "halted"
          /\ escaped' = "ValueError"
          /\ report' = <<expr, expr_parsed, latex_str, pdf>>
  /\ UNCHANGED <<notebookVars, drawVars, printVars, oracleVars, testVars, rejectedBy>>
  /\ UNCHANGED replayVars
  /\ UNCHANGED cellVars

\* ---------------------------------------------------------------- the run

\* A rejected or passed case is over; hypothesis draws the next one.
NextExample ==
  /\ pc \in {"rejected", "passed"}
  /\ pc' = "draw"
  /\ expr' = None
  /\ attempt' = NoAttempt
  /\ drawn' = "none"
  /\ latex_str' = Absent
  /\ printed' = <<>>
  /\ tmpdirs' = tmpdirs
  /\ tex' = tex
  /\ pdfFile' = pdfFile
  /\ success' = "None"
  /\ pdf' = Absent
  /\ pending' = "none"
  /\ failedStep' = "none"
  /\ compileExit' = "none"
  /\ truth' = "none"
  /\ expr_parsed' = None
  /\ parser_arg' = <<>>
  /\ parseRaised' = FALSE
  /\ rejectedBy' = "none"
  /\ UNCHANGED <<notebookVars, runVars>>
  /\ UNCHANGED replayVars
  /\ UNCHANGED cellVars

\* hypothesis stops drawing: its budget of examples is used up.
Complete ==
  /\ pc = "draw"
  /\ pc' = "complete"
  /\ UNCHANGED <<notebookVars, drawVars, printVars, oracleVars, testVars,
                 rejectedBy, runVars>>
  /\ UNCHANGED replayVars
  /\ UNCHANGED cellVars

\* ------------------------------------------------- the cells of the run

\* type(e), printed through e.__class__.__mro__.
TypeOf(e) == e.op

\* What the except clause of the run cell prints and displays for the list
\* r it unpacked; part_000 prints the expression first.
ReportShown(v, r) ==
  (IF v = "part_000" THEN << <<"print", r[1]>> >> ELSE <<>>)
    \o << <<"Markdown", "expr">>, <<"print", TypeOf(r[1])>>, <<"print", r[1]>>,
          <<"Markdown", "parsed">>, <<"print", TypeOf(r[2])>>, <<"print", r[2]>>,
          <<"Markdown", r[3]>>, <<"Latex", r[3]>>, <<"display", r[4]>> >>

\* A cell raises: the execution of the notebook stops there.
CellRaises(exc) ==
  /\ raised' = exc
  /\ exit' = "nonzero"
  /\ cell' = "stopped"

\* except ValueError as err: the four names are bound and shown.
RunCellExcept ==
  /\ cell = "run"
  /\ pc = "halted"
  /\ escaped = "ValueError"
  /\ consumed' = consumed + 1
  /\ shown' = shown \o ReportShown(version, report)
  /\ cell' = "types"
  /\ UNCHANGED <<raised, exit>>
  /\ UNCHANGED <<notebookVars, pc, drawVars, printVars, oracleVars, testVars,
                 rejectedBy, runVars, replayVars>>

\* test_latex_roundtrip() returns: the try statement is over.
RunCellReturns ==
  /\ cell = "run"
  /\ pc = "complete"
  /\ cell' = "types"
  /\ UNCHANGED <<shown, consumed, raised, exit>>
  /\ UNCHANGED <<notebookVars, pc, drawVars, printVars, oracleVars, testVars,
                 rejectedBy, runVars, replayVars>>

\* An exception that is no ValueError leaves the run cell.
RunCellUncaught ==
  /\ cell = "run"
  /\ pc = "halted"
  /\ escaped # "ValueError"
  /\ CellRaises(escaped)
  /\ UNCHANGED <<shown, consumed>>
  /\ UNCHANGED <<notebookVars, pc, drawVars, printVars, oracleVars, testVars,
                 rejectedBy, runVars, replayVars>>

\* types = list(map(type, [expr, expr_parsed])); print(types);
\* assert len(set(types)) == 1.  expr and expr_parsed are bound by the
\* except clause of the run cell and by nothing else.
TypesCell ==
  /\ cell = "types"
  /\ IF consumed = 0
     THEN CellRaises("NameError") /\ UNCHANGED shown
     ELSE /\ shown' = Append(shown, <<"print", <<TypeOf(report[1]), TypeOf(report[2])>> >>)
          /\ IF TypeOf(report[1]) = TypeOf(report[2])
             THEN cell' = "equal" /\ UNCHANGED <<raised, exit>>
             ELSE CellRaises("AssertionError")
  /\ UNCHANGED consumed
  /\ UNCHANGED <<notebookVars, pc, drawVars, printVars, oracleVars, testVars,
                 rejectedBy, runVars, replayVars>>

\* assert expr == expr_parsed; the cells after it look at the two
\* expressions.
EqualCell ==
  /\ cell = "equal"
  /\ IF report[1] = report[2]
     THEN cell' = "after" /\ exit' = "zero" /\ UNCHANGED raised
     ELSE CellRaises("AssertionError")
  /\ UNCHANGED <<shown, consumed>>
  /\ UNCHANGED <<notebookVars, pc, drawVars, printVars, oracleVars, testVars,
                 rejectedBy, runVars, replayVars>>

Next ==
  \/ DefineCell
  \/ Examples
  \/ RunTest
  \/ DrawExpr
  \/ Serialize
  \/ Mkdtemp
  \/ Write
  \/ Compile
  \/ Read
  \/ Cleanup
  \/ AssumeSuccess
  \/ AssumeExpr
  \/ Parse
  \/ Compare
  \/ NextExample
  \/ Complete
  \/ RunCellExcept
  \/ RunCellReturns
  \/ RunCellUncaught
  \/ TypesCell
  \/ EqualCell

Spec == Init /\ [][Next]_vars

\* ------------------------------------------------------- a second session

\* What a session of the notebook can have resolved numeric_expressions to:
\* in part_000 its first draw was made after k of the generator cells had
\* run; in Hypothesize.ipynb the union is built by its cell.
Resolutions(v) ==
  IF v = "part_000"
  THEN {numeric_expressions({"floats"} \cup {Cells[i] : i \in 1..k}) :
          k \in 0..Len(Cells)}
  ELSE {Hyp_numeric_expressions}

\* A second session of the same notebook has run its cells.
ReplaySession ==
  /\ pc = "draw"
  /\ replayStrategies = <<>>
  /\ replayStrategies' \in Resolutions(version)
  /\ UNCHANGED <<replayExpr, replayed>>
  /\ UNCHANGED <<notebookVars, pc, drawVars, printVars, oracleVars, testVars,
                 rejectedBy, runVars>>
  /\ UNCHANGED cellVars

\* The second session makes the draw of latex_printable_expressions with
\* the choices of the first (attempt).  Where its union offers the
\* alternative chosen, the same choices make the same construction;
\* where it does not, the draw returns one of what its union offers (how
\* hypothesis reads a choice against another union is not in the sources).
ReplayDraw ==
  /\ pc = "latex"
  /\ attempt # NoAttempt
  /\ replayStrategies # <<>>
  /\ ~replayed
  /\ replayed' = TRUE
  /\ replayExpr' \in
       IF attempt \in RootOutcomes(version, replayStrategies)
       THEN {attempt.res.e}
       ELSE {o.res.e : o \in RootOutcomes(version, replayStrategies)}
  /\ UNCHANGED replayStrategies
  /\ UNCHANGED <<notebookVars, pc, drawVars, printVars, oracleVars, testVars,
                 rejectedBy, runVars>>
  /\ UNCHANGED cellVars

NextReplay ==
  \/ DefineCell
  \/ Examples
  \/ RunTest
  \/ DrawExpr
  \/ ReplaySession
  \/ ReplayDraw

SpecReplay == Init /\ [][NextReplay]_vars

\* ----------------------------------------------------------------- claims

\* The case has been returned by typesettable_expressions and handed to
\* test_latex_roundtrip.
Handed ==
  \/ pc \in {"assume_expr", "parse", "compare", "passed"}
  \/ pc = "rejected" /\ rejectedBy = "test_latex_roundtrip"
  \/ pc = "halted" /\ escaped \in {"TypeError", "LaTeXParsingError", "ValueError"}

\* test_latex_roundtrip has ended for the case handed to it.
TestEnded == Handed /\ pc \in {"passed", "rejected", "halted"}

\* S.latex has been called for the case and the filter let its result through.
PastPrintable ==
  \/ pc \in {"mkdtemp", "write", "compile", "read", "cleanup", "assume_success"}
  \/ pc = "rejected" /\ rejectedBy = "typesettable_expressions"
  \/ pc = "halted" /\ escaped = "KeyboardInterrupt"
  \/ Handed

\* C1: parse_latex is called, and a Failure Report is made, only for a case
\* whose expression was constructed (the draw returned a value), whose
\* serialization returned without raising, and whose document pdflatex
\* compiled with exit status zero and whose expr.pdf was read.
C1_ParserOnlyOnClearedCases ==
  (pc \in {"parse", "compare", "passed"} \/ parser_arg # <<>> \/ report # <<>>)
    => /\ drawn = "value"
       /\ expr # None
       /\ Len(printed) >= 1
       /\ \A i \in DOMAIN printed : printed[i][2] # Absent
       /\ compileExit = "zero"
       /\ failedStep = "none"
       /\ pdf # Absent

C1_Witness ==
  /\ parser_arg # <<>>
  /\ expr.op = "Limit"
  /\ compileExit = "zero"
  /\ pdf # Absent

\* C2: every case handed to test_latex_roundtrip ends in one of two ways:
\* it passes silently with the parsed result equal to the original, or a
\* Failure Report (ValueError) is raised; no handed case is rejected,
\* dropped, or ended by another error.
C2_ExactlyTwoOutcomes ==
  TestEnded
    => \/ pc = "passed" /\ expr = expr_parsed /\ report = <<>>
       \/ pc = "halted" /\ escaped = "ValueError" /\ expr # expr_parsed
            /\ report # <<>>

\* C3: when parse_latex raises, the error does not leave
\* test_latex_roundtrip: expr_parsed stays None, the comparison is made, and
\* the Failure Report raised carries None as the parsed expression.
C3_ParseFailureIsAbsentResult ==
  parseRaised
    => /\ expr_parsed = None
       /\ escaped # "LaTeXParsingError"
       /\ pc \in {"compare", "halted"}
       /\ pc = "halted" => /\ escaped = "ValueError"
                           /\ report = <<expr, None, latex_str, pdf>>

C3_Witness ==
  /\ parseRaised
  /\ pc = "halted"
  /\ report # <<>>
  /\ report[2] = None

\* C4: in part_000 the only error a step of the pipeline lets out is the
\* ValueError of test_latex_roundtrip (an interrupt of the wait for pdflatex
\* is no error of a step).
C4_OnlyFailureReportEscapes ==
  version = "part_000" => escaped \in {"none", "ValueError", "KeyboardInterrupt"}

\* C5: a case returned by typesettable_expressions carries a pdf: the
\* document was written, pdflatex exited zero and expr.pdf was read; a case
\* whose pdf is absent after the try statement is rejected.
C5_OracleCaseHasArtifact ==
  /\ Handed => /\ pdf # Absent
               /\ success = "True"
               /\ compileExit = "zero"
               /\ failedStep = "none"
  /\ (pc = "rejected" /\ rejectedBy = "typesettable_expressions") => pdf = Absent

C5_Witness ==
  /\ pc = "rejected"
  /\ rejectedBy = "typesettable_expressions"
  /\ compileExit = "zero"
  /\ pdf = Absent

\* C6: outside the try statement of typesettable_expressions no directory
\* made by mkdtemp exists: it is removed after a successful compile, after a
\* failed write, a nonzero exit, a missing output file, and after an
\* exception the except clause does not catch.
C6_TmpdirRemovedOnEveryExit ==
  /\ tmpdirs \in {0, 1}
  /\ pc \notin {"write", "compile", "read", "cleanup"} => tmpdirs = 0

C6_Witness ==
  /\ pc = "halted"
  /\ escaped = "KeyboardInterrupt"
  /\ tmpdirs = 0

\* C7: a failure of the write, of pdflatex (nonzero exit, or not started) or
\* of the read rejects the case: typesettable_expressions rejects it, the
\* parser is never called on it, no Failure Report is made and no error
\* leaves the pipeline.
C7_OracleFailureRejects ==
  failedStep \in {"write", "compile", "read"}
    => /\ escaped = "none"
       /\ report = <<>>
       /\ parser_arg = <<>>
       /\ pc \in {"cleanup", "assume_success", "rejected"}
       /\ pc = "rejected" => rejectedBy = "typesettable_expressions"

C7_Witness ==
  /\ compileExit = "nonzero"
  /\ failedStep = "compile"
  /\ pc = "rejected"

\* C8: in both notebooks a call of S.latex that raises, and one that returns
\* the empty string, end with the draw rejected by
\* latex_printable_expressions.
C8_RaisedOrEmptyRejected ==
  (Len(printed) >= 1 /\ printed[1][2] \in {Absent, Some("")})
    => pc = "rejected" /\ rejectedBy = "latex_printable_expressions"

\* C9: S.latex is called exactly once per case, by
\* latex_printable_expressions, for the expression of the case; the string
\* it returned is the latex_str of the case, the string written into
\* expr.tex, the string given to parse_latex and the string of the Failure
\* Report, whose expression is the one that was serialized.
C9_MarkupComputedOnce ==
  /\ Len(printed) <= 1
  /\ PastPrintable => Len(printed) = 1
  /\ Len(printed) = 1
       => /\ printed[1][1] = expr
          /\ latex_str = printed[1][2]
          /\ tex # Absent => tex = Some(LATEX_DOC(printed[1][2]))
          /\ Len(parser_arg) <= 1
          /\ \A i \in DOMAIN parser_arg : parser_arg[i] = printed[1][2]
          /\ report # <<>> => /\ report[1] = printed[1][1]
                              /\ report[3] = printed[1][2]
  /\ Len(printed) = 0 => tex = Absent /\ parser_arg = <<>> /\ report = <<>>

C9_Witness ==
  /\ report # <<>>
  /\ Len(printed) = 1
  /\ report[3] = Some("y")
  /\ parser_arg = <<Some("y")>>

\* C10: in the unary, binary and ternary composition of part_000, when the
\* call with evaluate=False fails and the ordinary call of the same operator
\* on the same operands returns, the draw yields the ordinarily constructed
\* expression.
C10_FallbackYieldsEvaluated ==
  (/\ version = "part_000"
   /\ attempt.gen \in {"numeric_unary_expressions", "numeric_binary_expressions",
                       "numeric_ternary_expressions"}
   /\ attempt.args # <<>>
   /\ ~attempt.lib.uneval
   /\ attempt.lib.eval)
    => attempt.res = Value(Node(attempt.op, attempt.args, "evaluated"))

\* The compositions of part_000 that make two attempts.
TwoAttemptGens ==
  {"numeric_unary_expressions", "numeric_binary_expressions",
   "numeric_ternary_expressions", "relational_expressions"}

\* C11: in the unary, binary, ternary and relational composition of
\* part_000, when the call with evaluate=False and the ordinary call both
\* fail, the draw is rejected by that composition: no expression is
\* returned and no error leaves the generator.
C11_BothAttemptsFailRejects ==
  (/\ version = "part_000"
   /\ attempt.gen \in TwoAttemptGens
   /\ attempt.args # <<>>
   /\ ~attempt.lib.uneval
   /\ ~attempt.lib.eval)
    => /\ attempt.res = Reject
       /\ drawn = "reject"
       /\ expr = None
       /\ pc = "rejected"
       /\ rejectedBy = attempt.gen
       /\ escaped = "none"

C11_Witness ==
  /\ version = "part_000"
  /\ attempt.gen = "numeric_unary_expressions"
  /\ Len(attempt.args) = 1
  /\ ~attempt.lib.uneval
  /\ ~attempt.lib.eval
  /\ pc = "rejected"

\* The expression is built by one of the comparators.
IsRelational(e) == e.op \in Range(_comparators)

\* The expression is a relation or has one among its operands, at any depth.
RECURSIVE ContainsRelational(_)
ContainsRelational(e) ==
  \/ IsRelational(e)
  \/ \E i \in DOMAIN e.args : ContainsRelational(e.args[i])

\* C12: a relation is made only at the root of a case, by the draw of
\* latex_printable_expressions: no expression a draw from
\* numeric_expressions can return is a relation or contains one, so no
\* operand of a construction, and no operand at any depth of the expression
\* of a case, is a relation.
C12_RelationsOnlyAtRoot ==
  /\ pc = "draw"
       => \A e \in UpTo(NumericBySize(version, Resolve), MaxNodes) :
            ~ContainsRelational(e)
  /\ \A i \in DOMAIN attempt.args : ~ContainsRelational(attempt.args[i])
  /\ \A i \in DOMAIN expr.args : ~ContainsRelational(expr.args[i])
  /\ IsRelational(expr) /\ attempt # NoAttempt
       => attempt.gen = "relational_expressions"

C12_Witness ==
  /\ pc = "mkdtemp"
  /\ IsRelational(expr)
  /\ Len(expr.args) = 2
  /\ expr.args[1].op = "sin"
  /\ expr.args[2].op = "Symbol"

\* S.Float was called in the draw recorded by a: part_000 always calls it,
\* Hypothesize.ipynb calls it when both assumes let the precision through.
FloatConstructed(v, a) ==
  /\ a.gen = "floats"
  /\ v = "part_000" \/ a.res # Reject

\* C13 as stated: every precision passed to S.Float lies in 1..34.
C13_PrecisionWithin1To34 ==
  FloatConstructed(version, attempt) => attempt.prec \in 1..34

\* C13, amended: every precision passed to S.Float lies in 1..35 in
\* part_000 and in 0..34 in Hypothesize.ipynb.
C13_PrecisionInDrawnRange ==
  FloatConstructed(version, attempt)
    => IF version = "part_000" THEN attempt.prec \in 1..35
       ELSE attempt.prec \in 0..34

C13_Witness ==
  /\ version = "part_000"
  /\ attempt.gen = "floats"
  /\ attempt.prec = 35
  /\ attempt.res.tag = "value"
  /\ pc = "latex"

\* C14: when S.Float fails in floats, the draw is rejected by floats and no
\* error leaves the generator.
C14_FloatFailureRejects ==
  (FloatConstructed(version, attempt) /\ ~attempt.lib.eval)
    => /\ attempt.res = Reject
       /\ drawn = "reject"
       /\ pc = "rejected"
       /\ rejectedBy = "floats"
       /\ escaped = "none"

\* C16: two sessions of the notebook that make the draw of
\* latex_printable_expressions with the same choices hold the same
\* expression (and so, the serializer answering the same way, the same
\* markup) when the case goes on to the parser, whenever each of them
\* resolved numeric_expressions.
C16_ReplayHoldsSameExpression ==
  replayed => replayExpr = expr

\* The code points of a-z and A-Z.
AsciiLetters == (97..122) \cup (65..90)

\* The names of the symbols of an expression, at any depth.
RECURSIVE SymbolTexts(_)
SymbolTexts(e) ==
  (IF e.op = "Symbol" THEN {e.val} ELSE {})
    \cup UNION {SymbolTexts(e.args[i]) : i \in DOMAIN e.args}

\* C17: every name given to S.Symbol is one character long and that
\* character is one of a-z, A-Z: the name drawn by symbols at the root of a
\* case, and the name of every symbol of the expression of a case.
C17_NameIsOneAsciiLetter ==
  /\ attempt.gen = "symbols"
       => /\ Len(attempt.name) = 1
          /\ attempt.name[1] \in AsciiLetters
          /\ attempt.res = Value(Atom("Symbol", Text(attempt.name)))
  /\ \A t \in SymbolTexts(expr) :
       \E n \in NameCandidates :
         t = Text(n) /\ Len(n) = 1 /\ n[1] \in AsciiLetters

C17_Witness ==
  /\ attempt.gen = "symbols"
  /\ attempt.name = <<90>>
  /\ expr.val = "Z"
  /\ pc = "latex"

\* C18: once the run cell is over, either every case passed and the run
\* completed with no Failure Report and nothing shown, or the run halted at
\* a disagreement whose Failure Report the except clause unpacked exactly
\* once (an interrupt by the user apart); no case is drawn once a Failure
\* Report exists, and none is unpacked twice.
C18_RunPassesOrReportsOnce ==
  /\ cell # "run"
       => \/ pc = "complete" /\ report = <<>> /\ consumed = 0 /\ shown = <<>>
          \/ pc = "halted" /\ escaped = "ValueError" /\ report # <<>>
               /\ consumed = 1
          \/ pc = "halted" /\ escaped = "KeyboardInterrupt"
  /\ consumed <= 1
  /\ report # <<>> => pc = "halted" /\ escaped = "ValueError"

\* C19: the execution of part_000 ends with a failure status and the
\* four fields of the Failure Report shown when a case failed, and with
\* status zero and nothing shown when none did (runs that an error other
\* than the Failure Report ended are left aside).
C19_ExitStatusTellsFailure ==
  (version = "part_000" /\ exit # "none" /\ escaped \in {"none", "ValueError"})
    => IF report # <<>>
       THEN /\ exit = "nonzero"
            /\ Len(shown) >= Len(ReportShown(version, report))
            /\ SubSeq(shown, 1, Len(ReportShown(version, report)))
                 = ReportShown(version, report)
       ELSE /\ exit = "zero"
            /\ shown = <<>>
            /\ raised = "none"

\* C20: relational_expressions of part_000, for the comparator it sampled
\* and the two operands it drew, returns op(a, b, evaluate=False) when that
\* call returns, and otherwise op(a, b), with the same comparator and the
\* same operands, when that call returns.
C20_RelationalTwoAttempts ==
  (/\ version = "part_000"
   /\ attempt.gen = "relational_expressions"
   /\ attempt.args # <<>>)
    => /\ attempt.op \in Range(_comparators)
       /\ Len(attempt.args) = 2
       /\ attempt.lib.uneval
            => attempt.res = Value(Node(attempt.op, attempt.args, "unevaluated"))
       /\ (~attempt.lib.uneval /\ attempt.lib.eval)
            => /\ attempt.res = Value(Node(attempt.op, attempt.args, "evaluated"))
               /\ expr = attempt.res.e
               /\ pc = "latex"

C20_Witness ==
  /\ version = "part_000"
  /\ attempt.gen = "relational_expressions"
  /\ ~attempt.lib.uneval
  /\ attempt.lib.eval
  /\ expr = Node("gt", attempt.args, "evaluated")
  /\ pc = "latex"

\* C21: the step that defines numeric_expressions in part_000 leaves it
\* unresolved, with no alternative built and no value drawn; it is resolved
\* only by a later step, one that requests a draw from it.
C21_DefinitionDoesNotResolve ==
  [][version = "part_000"
       => /\ ("numeric_expressions" \notin defined
                /\ "numeric_expressions" \in defined')
              => /\ ~resolved'
                 /\ strategies' = <<>>
                 /\ UNCHANGED drawVars
          /\ (~resolved /\ resolved')
              => /\ "numeric_expressions" \in defined
                 /\ UNCHANGED defined]_vars

C21_Witness ==
  /\ version = "part_000"
  /\ "numeric_expressions" \in defined
  /\ "symbols" \in defined
  /\ ~resolved
  /\ strategies = <<>>

\* The generators that draw no operand, and those that draw operands from
\* numeric_expressions.
AtomicGens == {"floats", "symbols"}
CompoundGens ==
  {"numeric_unary_expressions", "numeric_binary_expressions",
   "numeric_ternary_expressions"}

\* C22: in the list of alternatives of numeric_expressions, in either
\* notebook and whenever it is resolved, every atomic generator stands before
\* every compound one.
C22_AtomicBeforeCompound ==
  \A i, j \in DOMAIN Resolve :
    (Resolve[i] \in AtomicGens /\ Resolve[j] \in CompoundGens) => i < j

C22_Witness ==
  /\ version = "part_000"
  /\ resolved
  /\ AtomicGens \subseteq Range(strategies)
  /\ CompoundGens \subseteq Range(strategies)
  /\ pc = "latex"

\* C23: cases are handled one at a time and a directory never outlives its
\* case.  No step leaves more than one directory of mkdtemp in existence; a
\* directory is made only when none exists; the parser is called only when
\* none exists; and a step that returns the case to test_latex_roundtrip,
\* rejects it, or begins the next draw ends with none, the next draw
\* starting from a case with nothing left of the previous one.
C23_DirectoryWithinItsCase ==
  [][/\ tmpdirs' <= 1
     /\ (tmpdirs' > tmpdirs) => tmpdirs = 0
     /\ (parser_arg' # parser_arg) => tmpdirs = 0
     /\ (pc' # pc /\ pc' \in {"assume_expr", "parse", "rejected", "draw"})
          => tmpdirs' = 0
     /\ (pc' = "draw" /\ pc \in {"rejected", "passed"}) => CaseCleared']_vars

C23_Witness ==
  /\ pc = "parse"
  /\ success = "True"
  /\ compileExit = "zero"
  /\ tmpdirs = 0
  /\ tex = Absent
  /\ ~pdfFile

\* The components whose rejection comes before typesettable_expressions has
\* done anything: the generators and latex_printable_expressions.
Upstream ==
  AtomicGens \cup CompoundGens
    \cup {"relational_expressions", "latex_printable_expressions"}

\* A directory is made, expr.tex is written, pdflatex is started or expr.pdf
\* appears.
Acquires ==
  \/ tmpdirs' > tmpdirs
  \/ tex' # tex /\ tex' # Absent
  \/ compileExit' # compileExit /\ compileExit' # "none"
  \/ pdfFile' /\ ~pdfFile

\* C24: in both notebooks a directory, a document or a compiler process
\* comes into being only in a case whose draw returned an expression and
\* whose markup string latex_printable_expressions has yielded; and the step
\* in which a generator or latex_printable_expressions rejects a draw
\* changes nothing of the oracle's and leaves no directory, no file and no
\* compiler run behind.
C24_UpstreamRejectionAcquiresNothing ==
  [][/\ Acquires => /\ drawn = "value"
                     /\ expr # None
                     /\ latex_str # Absent
                     /\ rejectedBy = "none"
     /\ (rejectedBy' \in Upstream /\ rejectedBy = "none")
          => /\ UNCHANGED oracleVars
             /\ tmpdirs' = 0
             /\ tex' = Absent
             /\ ~pdfFile'
             /\ compileExit' = "none"
             /\ failedStep' = "none"]_vars

C24_Witness ==
  /\ pc = "rejected"
  /\ rejectedBy = "latex_printable_expressions"
  /\ expr.op = "Symbol"
  /\ latex_str = Absent
  /\ tmpdirs = 0
  /\ compileExit = "none"

\* The place in shown of the first Markdown heading of the except clause:
\* part_000 prints the expression before it.
FirstHeading == IF version = "part_000" THEN 2 ELSE 1

\* C25: the list carried by the ValueError of test_latex_roundtrip has four
\* elements: the expression of the Oracle Case, what the parser returned for
\* its markup (None when the parser raised), the markup string the
\* serializer returned and the parser was given, and the artifact read from
\* expr.pdf.  The except clause of the run cell shows the first as expr, the
\* second as parsed, the third as the LaTeX source and the fourth as the
\* document.
C25_ReportIsTheCase ==
  /\ report # <<>>
       => /\ Len(report) = 4
          /\ escaped = "ValueError"
          /\ report[1] = expr /\ drawn = "value"
          /\ report[2] = expr_parsed
          /\ parseRaised => report[2] = None
          /\ ~parseRaised => report[2] \in ParseSamples(expr)
          /\ report[3] = latex_str
          /\ printed = << <<expr, report[3]>> >>
          /\ parser_arg = <<report[3]>>
          /\ report[4] = pdf /\ pdf = Some("PDF")
  /\ consumed > 0
       => LET h == FirstHeading IN
          /\ report # <<>>
          /\ Len(shown) >= h + 8
          /\ shown[h] = <<"Markdown", "expr">>
          /\ shown[h + 2] = <<"print", expr>>
          /\ shown[h + 3] = <<"Markdown", "parsed">>
          /\ shown[h + 5] = <<"print", expr_parsed>>
          /\ shown[h + 6] = <<"Markdown", latex_str>>
          /\ shown[h + 7] = <<"Latex", latex_str>>
          /\ shown[h + 8] = <<"display", pdf>>

C25_Witness ==
  /\ version = "part_000"
  /\ consumed = 1
  /\ ~parseRaised
  /\ report[1].op = "sin"
  /\ report[2] = Atom("Symbol", "a")
  /\ report[3] = Some("x")
  /\ report[4] = Some("PDF")

\* C26: in part_000, once test_latex_roundtrip is running, a draw from
\* numeric_expressions chooses among all five alternatives (floats, symbols
\* and the unary, binary and ternary compositions), whenever the deferred
\* definition was first resolved.
C26_AllFiveAlternatives ==
  (version = "part_000" /\ pc # "notebook")
    => Range(Resolve) = AtomicGens \cup CompoundGens

\* C27: in both notebooks a composite whose draw of an operand was rejected
\* is rejected itself and yields no expression, also where the draw is made
\* inside a bare except; a case whose expression was rejected gets no markup
\* and no artifact; and a case rejected by latex_printable_expressions gets
\* no artifact.  None of them reaches the parser or a Failure Report.
C27_NestedRejectionRejects ==
  /\ attempt.nested = "reject"
       => /\ attempt.res = Reject
          /\ drawn = "reject"
          /\ expr = None
          /\ rejectedBy = attempt.gen
  /\ drawn = "reject"
       => /\ pc = "rejected"
          /\ latex_str = Absent /\ printed = <<>>
          /\ success = "None" /\ pdf = Absent
          /\ parser_arg = <<>> /\ report = <<>>
  /\ rejectedBy = "latex_printable_expressions"
       => /\ pc = "rejected"
          /\ success = "None" /\ pdf = Absent
          /\ parser_arg = <<>> /\ report = <<>>

C27_Witness ==
  /\ version = "Hypothesize"
  /\ attempt.gen = "relational_expressions"
  /\ attempt.nested = "reject"
  /\ pc = "rejected"
  /\ expr = None

=============================================================================
